---- MODULE Spec2Model ----
(***************************************************************************)
(* Model of dataset_generator.py: generate_enrollment_data_v4 (the         *)
(* enrollment generator) and generate_student_course_matrix_v4 (the matrix *)
(* builder), together with the output directory they share.                *)
(*                                                                         *)
(* Text is modelled as sequences of one-character strings, so that         *)
(* formatting (f"{n}"), parsing (int(...)), str.startswith, str.split and  *)
(* the string sort are computed as the code computes them.  A file is a    *)
(* sequence of lines (each written with a trailing "\n" by the code).      *)
(***************************************************************************)
EXTENDS Integers, Sequences, FiniteSets, TLC

VARIABLES
    pc,                 \* position of the generator: idle/students/courses/assign/withdraw/summary
    args,               \* arguments of the latest generate_enrollment_data_v4 call
    student_ids,        \* list student_ids (l.21-28)
    num_courses_taken,  \* list num_courses_taken (l.31)
    course_numbers,     \* list course_numbers (l.34-39)
    course_enrollments, \* dict course name -> list of student ids (l.42-50)
    idx,                \* 1-based position of the running for-loop (l.45 / l.53)
    course_name,        \* loop variable of l.53: the course written last
    withdrawal_rate,    \* l.55: numerator of the rate drawn for course_name
    num_withdrawals,    \* l.56, for course_name
    withdrawn_students, \* l.57: the sample drawn for course_name (as a set)
    remaining_students, \* l.58: the list kept for course_name
    dirExists,          \* os.path.exists(output_dir)
    files,              \* the entries of output_dir: file name -> sequence of lines
    console,            \* what the latest call printed or raised
    runs,               \* number of generator invocations so far
    scen                \* state of the withdrawal-count scenario (SpecScenario only)

vars == <<pc, args, student_ids, num_courses_taken, course_numbers,
          course_enrollments, idx, course_name, withdrawal_rate,
          num_withdrawals, withdrawn_students, remaining_students, dirExists,
          files, console, runs, scen>>

----------------------------------------------------------------------------
(* Bounds of the model and constants of the program *)

\* random.randint(10000000, 99999999): the model draws from
\* MinStudentId .. MinStudentId + StudentSpace - 1
MinStudentId == 10000000
StudentSpace == 2
MaxStudentId == MinStudentId + StudentSpace - 1

\* random.randint(1000, 9999): the model draws from
\* MinCourseNum .. MinCourseNum + CourseSpace - 1
MinCourseNum == 1000
CourseSpace == 2
MaxCourseNum == MinCourseNum + CourseSpace - 1

\* random.uniform(lo, hi): a rate range is <<lo, hi, den>>, the rates lo/den and
\* hi/den, and a rate is drawn in steps of 1/den as a numerator n of n/den.
\* RateDen is the den of the ranges the generator is called with in Spec.
RateDen == 4

\* number of generator invocations in SpecRerun
MaxRuns == 2

----------------------------------------------------------------------------
(* Text *)

Ascii ==
    <<" ", ",", ".",
      "0", "1", "2", "3", "4", "5", "6", "7", "8", "9",
      "A", "B", "C", "D", "E", "F", "G", "H", "I", "J", "K", "L", "M",
      "N", "O", "P", "Q", "R", "S", "T", "U", "V", "W", "X", "Y", "Z",
      "_",
      "a", "b", "c", "d", "e", "f", "g", "h", "i", "j", "k", "l", "m",
      "n", "o", "p", "q", "r", "s", "t", "u", "v", "w", "x", "y", "z">>

Range(s) == {s[k] : k \in 1..Len(s)}

Ord(c) == CHOOSE k \in 1..Len(Ascii) : Ascii[k] = c

Digits == <<"0", "1", "2", "3", "4", "5", "6", "7", "8", "9">>

IsDigit(c) == c \in Range(Digits)

DigitVal(c) == (CHOOSE k \in 1..10 : Digits[k] = c) - 1

\* str(n) / f"{n}" for n >= 0
RECURSIVE Str(_)
Str(n) == IF n < 10 THEN <<Digits[n + 1]>>
          ELSE Str(n \div 10) \o <<Digits[(n % 10) + 1]>>

\* s.strip(): leading and trailing blanks removed
RECURSIVE Strip(_)
Strip(s) ==
    IF s = <<>> THEN s
    ELSE IF Head(s) = " " THEN Strip(Tail(s))
    ELSE IF s[Len(s)] = " " THEN Strip(SubSeq(s, 1, Len(s) - 1))
    ELSE s

ValueError == -1

\* the value of the first n characters of s read as decimal digits
RECURSIVE DigitsPrefixValue(_, _)
DigitsPrefixValue(s, n) ==
    IF n = 0 THEN 0
    ELSE DigitsPrefixValue(s, n - 1) * 10 + DigitVal(s[n])

\* int(s) on a text of decimal digits
DigitsValue(s) == DigitsPrefixValue(s, Len(s))

\* int(s): anything but blanks around decimal digits raises ValueError
ParseInt(s) ==
    LET t == Strip(s)
    IN  IF t # <<>> /\ \A k \in 1..Len(t) : IsDigit(t[k])
        THEN DigitsValue(t)
        ELSE ValueError

StartsWith(s, p) == Len(s) >= Len(p) /\ SubSeq(s, 1, Len(p)) = p

EndsWith(s, p) == Len(s) >= Len(p) /\ SubSeq(s, Len(s) - Len(p) + 1, Len(s)) = p

\* sep.join(parts)
RECURSIVE Join(_, _)
Join(parts, sep) ==
    IF parts = <<>> THEN <<>>
    ELSE IF Len(parts) = 1 THEN parts[1]
    ELSE parts[1] \o sep \o Join(Tail(parts), sep)

\* position of the first sep in s, 0 when there is none
FirstComma(s) ==
    IF \E k \in 1..Len(s) : s[k] = ","
    THEN CHOOSE k \in 1..Len(s) : s[k] = "," /\ \A j \in 1..(k - 1) : s[j] # ","
    ELSE 0

\* s.split(","): all fields
RECURSIVE Split(_)
Split(s) ==
    LET k == FirstComma(s)
    IN  IF k = 0 THEN <<s>>
        ELSE <<SubSeq(s, 1, k - 1)>> \o Split(SubSeq(s, k + 1, Len(s)))

\* Python's order on str: lexicographic by code point
RECURSIVE StrLess(_, _)
StrLess(a, b) ==
    IF a = <<>> THEN b # <<>>
    ELSE IF b = <<>> THEN FALSE
    ELSE IF Head(a) # Head(b) THEN Ord(Head(a)) < Ord(Head(b))
    ELSE StrLess(Tail(a), Tail(b))

IntLess(a, b) == a < b

\* sorted(list of int)
SortedInts(s) == SortSeq(s, IntLess)

\* sorted(list of str)
SortedStrs(s) == SortSeq(s, StrLess)

\* the elements of a finite set of integers in ascending order
RECURSIVE SetToSortedSeq(_)
SetToSortedSeq(S) ==
    IF S = {} THEN <<>>
    ELSE LET m == CHOOSE x \in S : \A y \in S : x <= y
         IN  <<m>> \o SetToSortedSeq(S \ {m})

\* some enumeration of a finite set
RECURSIVE SetToSeq(_)
SetToSeq(S) ==
    IF S = {} THEN <<>>
    ELSE LET m == CHOOSE x \in S : TRUE
         IN  <<m>> \o SetToSeq(S \ {m})

\* lst[:k] of Python, k possibly negative
PySlice(lst, k) ==
    IF k >= 0 THEN SubSeq(lst, 1, IF k < Len(lst) THEN k ELSE Len(lst))
    ELSE SubSeq(lst, 1, IF Len(lst) + k > 0 THEN Len(lst) + k ELSE 0)

IsAscending(s) == \A k \in 1..(Len(s) - 1) : s[k] < s[k + 1]

IsDistinct(s) == \A j, k \in 1..Len(s) : j # k => s[j] # s[k]

----------------------------------------------------------------------------
(* Names, files and messages *)

\* default of the parameter program_name
program_name == <<"I", "N", "F", "O">>

TxtExt == <<".", "t", "x", "t">>

Comma == <<",">>

\* "student_courses_summary.txt"
SummaryFile ==
    <<"s", "t", "u", "d", "e", "n", "t", "_", "c", "o", "u", "r", "s", "e", "s", "_", "s", "u", "m", "m", "a", "r", "y", ".", "t", "x", "t">>

\* "student_course_matrix.csv"
MatrixFile ==
    <<"s", "t", "u", "d", "e", "n", "t", "_", "c", "o", "u", "r", "s", "e", "_", "m", "a", "t", "r", "i", "x", ".", "c", "s", "v">>

\* "StudentID,Courses"
SummaryHeader == <<"S", "t", "u", "d", "e", "n", "t", "I", "D", ",", "C", "o", "u", "r", "s", "e", "s">>

\* "StudentID," : the start of the matrix header
MatrixHeaderStart == <<"S", "t", "u", "d", "e", "n", "t", "I", "D", ",">>

\* f"{program_name}{course_num}"
CourseName(course_num) == program_name \o Str(course_num)

\* os.path.join(output_dir, f"{course_name}.txt"), as an entry of output_dir
CourseFile(name) == name \o TxtExt

MsgNone == "nothing printed"
MsgGenerated == "Data generated and saved to"
MsgDirNotFound == "Error: Directory not found. Run generate_enrollment_data_v4 first."
MsgMatrixSaved == "Student-course matrix saved to"
ExcSampleValueError == "ValueError: Sample larger than population or is negative"
ExcIntValueError == "ValueError: invalid literal for int() with base 10"
ExcFileNotFound == "FileNotFoundError"
ExcStopIteration == "StopIteration"

\* the entry fname of directory fs (over)written with content
WriteFile(fs, fname, content) == (fname :> content) @@ fs

----------------------------------------------------------------------------
(* Reading a course file: l.75-80 and l.121-124 *)

\* the file can be read: a count line and student-id lines, all integers
CourseFileReadable(content) ==
    /\ content # <<>>
    /\ \A k \in 1..Len(content) : ParseInt(content[k]) # ValueError

\* num_withdrawals = int(course_file.readline().strip())
FileWithdrawals(content) == ParseInt(content[1])

\* all_students_in_file = [int(line.strip()) for line in course_file]
AllStudentsInFile(content) ==
    [k \in 1..(Len(content) - 1) |-> ParseInt(content[k + 1])]

\* all_students_in_file[:len(all_students_in_file) - num_withdrawals]
ActiveSegment(content) ==
    LET all == AllStudentsInFile(content)
    IN  PySlice(all, Len(all) - FileWithdrawals(content))

----------------------------------------------------------------------------
(* generate_enrollment_data_v4 *)

\* the arguments the model calls the generator with
StudentCounts == 0..StudentSpace
CourseCounts == 0..CourseSpace
CpsRanges == {<<1, 2>>}
RateRanges == {<<0, RateDen, RateDen>>}

NoArgs ==
    [num_courses |-> 0, num_students |-> 0,
     courses_per_student_range |-> <<0, 0>>,
     withdrawal_rate_range |-> <<0, 0, 1>>]

Init ==
    /\ pc = "idle"
    /\ args = NoArgs
    /\ student_ids = <<>>
    /\ num_courses_taken = <<>>
    /\ course_numbers = <<>>
    /\ course_enrollments = <<>>
    /\ idx = 0
    /\ course_name = <<>>
    /\ withdrawal_rate = 0
    /\ num_withdrawals = 0
    /\ withdrawn_students = {}
    /\ remaining_students = <<>>
    /\ dirExists = FALSE
    /\ files = <<>>
    /\ console = MsgNone
    /\ runs = 0
    /\ scen = "off"

\* random.randint(10000000, 99999999)
StudentIdDraws == MinStudentId..MaxStudentId

\* mutant of CourseNumDraws: the upper end is never drawn (randrange for randint)
CourseNumDrawsShort == MinCourseNum..(MaxCourseNum - 1)

\* random.randint(1000, 9999)
CourseNumDraws == MinCourseNum..MaxCourseNum

\* the call, and l.17-18: the directory is created when it is absent
GenStart(limit, NS, NC) ==
    /\ pc = "idle"
    /\ runs < limit
    /\ \E ns \in NS, nc \in NC, cps \in CpsRanges, wr \in RateRanges :
          args' = [num_courses |-> nc, num_students |-> ns,
                   courses_per_student_range |-> cps,
                   withdrawal_rate_range |-> wr]
    /\ dirExists' = TRUE
    /\ student_ids' = <<>>
    /\ num_courses_taken' = <<>>
    /\ course_numbers' = <<>>
    /\ course_enrollments' = <<>>
    /\ idx' = 0
    /\ course_name' = <<>>
    /\ withdrawal_rate' = 0
    /\ num_withdrawals' = 0
    /\ withdrawn_students' = {}
    /\ remaining_students' = <<>>
    /\ pc' = "students"
    /\ console' = MsgNone
    /\ runs' = runs + 1
    /\ UNCHANGED <<files, scen>>

\* mutant of AppendIfNew: the membership test is dropped
AppendAlways(lst, new) == Append(lst, new)

\* lst after "if new not in lst: lst.append(new)"
AppendIfNew(lst, new) == IF new \notin Range(lst) THEN Append(lst, new) ELSE lst

\* one iteration of the while loop of l.22-25
DrawStudentId(new_id) ==
    /\ pc = "students"
    /\ Len(student_ids) < args.num_students
    /\ student_ids' = AppendIfNew(student_ids, new_id)
    /\ UNCHANGED <<pc, args, num_courses_taken, course_numbers, course_enrollments,
                   idx, course_name, withdrawal_rate, num_withdrawals,
                   withdrawn_students, remaining_students, dirExists, files,
                   console, runs, scen>>

DrawStudent == \E new_id \in StudentIdDraws : DrawStudentId(new_id)

\* the results random.shuffle(lst) can give
Shuffles(lst) ==
    {s \in [1..Len(lst) -> Range(lst)] : Range(s) = Range(lst)}

\* the while loop of l.22 ends; l.28 shuffle; l.31 num_courses_taken
FinishStudents ==
    /\ pc = "students"
    /\ ~(Len(student_ids) < args.num_students)
    /\ student_ids' \in Shuffles(student_ids)
    /\ num_courses_taken' \in
          [1..args.num_students ->
              args.courses_per_student_range[1]..args.courses_per_student_range[2]]
    /\ pc' = "courses"
    /\ UNCHANGED <<args, course_numbers, course_enrollments, idx, course_name,
                   withdrawal_rate, num_withdrawals, withdrawn_students,
                   remaining_students, dirExists, files, console, runs, scen>>

\* one iteration of the while loop of l.35-38
DrawCourseNum(new_course_num) ==
    /\ pc = "courses"
    /\ Len(course_numbers) < args.num_courses
    /\ course_numbers' = AppendIfNew(course_numbers, new_course_num)
    /\ UNCHANGED <<pc, args, student_ids, num_courses_taken, course_enrollments,
                   idx, course_name, withdrawal_rate, num_withdrawals,
                   withdrawn_students, remaining_students, dirExists, files,
                   console, runs, scen>>

DrawCourse == \E new_course_num \in CourseNumDraws : DrawCourseNum(new_course_num)

\* where the generator goes once student k of the for loop of l.45 is done
AfterAssign(k) ==
    IF k < Len(student_ids) THEN "assign"
    ELSE IF args.num_courses > 0 THEN "withdraw"
    ELSE "summary"

\* course_numbers.sort() of l.39
SortCourseNumbers(lst) == SortedInts(lst)

\* the while loop of l.35 ends; l.39 sort; l.42 the empty enrollments
FinishCourses ==
    /\ pc = "courses"
    /\ ~(Len(course_numbers) < args.num_courses)
    /\ course_numbers' = SortCourseNumbers(course_numbers)
    /\ course_enrollments' =
          [name \in {CourseName(n) : n \in Range(course_numbers)} |-> <<>>]
    /\ idx' = 1
    /\ pc' = AfterAssign(0)
    /\ UNCHANGED <<args, student_ids, num_courses_taken, course_name,
                   withdrawal_rate, num_withdrawals, withdrawn_students,
                   remaining_students, dirExists, files, console, runs, scen>>

\* the results random.sample(range(n), k) can give, as sets of indices
SampleIndices(n, k) == {T \in SUBSET (0..(n - 1)) : Cardinality(T) = k}

\* course_enrollments after l.48-50 for one student
Enroll(enrollments, selected_course_indices, student_id) ==
    [name \in DOMAIN enrollments |->
        IF \E course_index \in selected_course_indices :
              name = CourseName(course_numbers[course_index + 1])
        THEN Append(enrollments[name], student_id)
        ELSE enrollments[name]]

\* one iteration of the for loop of l.45-50; random.sample raises ValueError
\* when the sample is larger than the population
AssignStudent ==
    /\ pc = "assign"
    /\ LET student_id == student_ids[idx]
           num_courses_for_student == num_courses_taken[idx]
       IN  IF num_courses_for_student > args.num_courses
           THEN /\ pc' = "idle"
                /\ console' = ExcSampleValueError
                /\ UNCHANGED <<course_enrollments, idx>>
           ELSE /\ \E selected \in SampleIndices(args.num_courses, num_courses_for_student) :
                      course_enrollments' = Enroll(course_enrollments, selected, student_id)
                /\ idx' = IF idx < Len(student_ids) THEN idx + 1 ELSE 1
                /\ pc' = AfterAssign(idx)
                /\ UNCHANGED console
    /\ UNCHANGED <<args, student_ids, num_courses_taken, course_numbers,
                   course_name, withdrawal_rate, num_withdrawals, withdrawn_students,
                   remaining_students, dirExists, files, runs, scen>>

\* mutant of RateDraws: the rate may exceed the upper end of the range
RateDrawsOver(range) == range[1]..(range[2] + 1)

\* random.uniform(lo, hi) of l.55: the numerators it can give
RateDraws(range) == range[1]..range[2]

\* int(len(enrolled_students) * withdrawal_rate), the rate being rate/den
NumWithdrawals(enrolled_count, rate, den) == (enrolled_count * rate) \div den

\* the results random.sample(enrolled_students, num_withdrawals) can give, as sets
SampleStudents(enrolled_students, count) ==
    {T \in SUBSET Range(enrolled_students) : Cardinality(T) = count}

\* mutant of Remaining: the withdrawn students are not filtered out
RemainingKeepsAll(enrolled_students, withdrawn) == enrolled_students

\* [sid for sid in enrolled_students if sid not in withdrawn_students]
Remaining(enrolled_students, withdrawn) ==
    LET Stays(sid) == sid \notin withdrawn
    IN  SelectSeq(enrolled_students, Stays)

\* mutant of CourseFileContent: the withdrawn block is written first
CourseFileContentSwapped(count, remaining, withdrawn) ==
    LET active_sorted == SortedInts(remaining)
        withdrawn_sorted == SetToSortedSeq(withdrawn)
    IN  <<Str(count)>>
        \o [k \in 1..Len(withdrawn_sorted) |-> Str(withdrawn_sorted[k])]
        \o [k \in 1..Len(active_sorted) |-> Str(active_sorted[k])]

\* the lines written by l.61-65
CourseFileContent(count, remaining, withdrawn) ==
    LET active_sorted == SortedInts(remaining)
        withdrawn_sorted == SetToSortedSeq(withdrawn)
    IN  <<Str(count)>>
        \o [k \in 1..Len(active_sorted) |-> Str(active_sorted[k])]
        \o [k \in 1..Len(withdrawn_sorted) |-> Str(withdrawn_sorted[k])]

\* one iteration of the for loop of l.53-65, over the dict in insertion order
WithdrawCourse ==
    /\ pc = "withdraw"
    /\ course_name' = CourseName(course_numbers[idx])
    /\ LET enrolled_students == course_enrollments[course_name']
       IN  /\ withdrawal_rate' \in RateDraws(args.withdrawal_rate_range)
           /\ num_withdrawals' = NumWithdrawals(Len(enrolled_students), withdrawal_rate',
                                                args.withdrawal_rate_range[3])
           /\ withdrawn_students' \in SampleStudents(enrolled_students, num_withdrawals')
           /\ remaining_students' = Remaining(enrolled_students, withdrawn_students')
    /\ files' = WriteFile(files, CourseFile(course_name'),
          CourseFileContent(num_withdrawals', remaining_students', withdrawn_students'))
    /\ idx' = IF idx < Len(course_numbers) THEN idx + 1 ELSE 1
    /\ pc' = IF idx < Len(course_numbers) THEN "withdraw" ELSE "summary"
    /\ UNCHANGED <<args, student_ids, num_courses_taken, course_numbers,
                   course_enrollments, dirExists, console, runs, scen>>

\* mutant of ReadActive: the whole file is kept, withdrawn block too
ReadWholeFile(fs, name) == AllStudentsInFile(fs[CourseFile(name)])

\* l.74-80: the active segment read from the file of course name
ReadActive(fs, name) == ActiveSegment(fs[CourseFile(name)])

\* courses_taken of l.72-81 for one student: the names, in the insertion
\* order of the dict, of the courses whose active segment holds the student
CoursesTaken(names, actives, student_id) ==
    LET Taken(k) == student_id \in Range(actives[k])
        taken == SelectSeq([k \in 1..Len(names) |-> k], Taken)
    IN  [j \in 1..Len(taken) |-> names[taken[j]]]

\* l.82: f"{student_id},{','.join(sorted(courses_taken))}"
SummaryLine(names, actives, student_id) ==
    Str(student_id) \o Comma
        \o Join(SortedStrs(CoursesTaken(names, actives, student_id)), Comma)

\* the lines written by l.69-82; every student reads every course file, and
\* the files do not change in between
SummaryContent(fs) ==
    LET names == [k \in 1..Len(course_numbers) |-> CourseName(course_numbers[k])]
        actives == [k \in 1..Len(names) |-> ReadActive(fs, names[k])]
    IN  <<SummaryHeader>>
        \o [k \in 1..Len(student_ids) |-> SummaryLine(names, actives, student_ids[k])]

\* l.67-84: the summary file, the message, the return
WriteSummary ==
    /\ pc = "summary"
    /\ files' = WriteFile(files, SummaryFile, SummaryContent(files))
    /\ console' = MsgGenerated
    /\ pc' = "idle"
    /\ UNCHANGED <<args, student_ids, num_courses_taken, course_numbers,
                   course_enrollments, idx, course_name, withdrawal_rate,
                   num_withdrawals, withdrawn_students, remaining_students,
                   dirExists, runs, scen>>

----------------------------------------------------------------------------
(* generate_student_course_matrix_v4 *)

\* l.97: the entries the listing keeps
IsCourseEntry(filename) ==
    StartsWith(filename, program_name) /\ EndsWith(filename, TxtExt)

\* l.98: filename[len(program_name):-4]
EntrySuffix(filename) ==
    SubSeq(filename, Len(program_name) + 1, Len(filename) - Len(TxtExt))

\* l.96-98: the list course_numbers (of texts), in some listing order
ListedSuffixes(fs) ==
    LET entries == SetToSeq({f \in DOMAIN fs : IsCourseEntry(f)})
    IN  [k \in 1..Len(entries) |-> EntrySuffix(entries[k])]

\* l.99 raises ValueError
ListingFails(fs) ==
    LET listed == ListedSuffixes(fs)
    IN  \E k \in 1..Len(listed) : ParseInt(listed[k]) = ValueError

\* l.99: sorted([int(c) for c in course_numbers])
MatrixCourseNumbers(fs) ==
    LET listed == ListedSuffixes(fs)
    IN  SortedInts([k \in 1..Len(listed) |-> ParseInt(listed[k])])

\* l.107: line.strip().split(',', 1) gives two fields
SummaryLineSplits(line) == FirstComma(Strip(line)) # 0

\* l.107-108: int(student_id) of one summary line
SummaryLineId(line) ==
    LET t == Strip(line)
    IN  ParseInt(SubSeq(t, 1, FirstComma(t) - 1))

\* l.105-108 raise ValueError on some line
SummaryParseFails(fs) ==
    LET lines == fs[SummaryFile]
    IN  \E k \in 2..Len(lines) :
            \/ ~SummaryLineSplits(lines[k])
            \/ SummaryLineId(lines[k]) = ValueError

\* l.102-109: the sorted list student_ids
MatrixStudentIds(fs) ==
    LET lines == Tail(fs[SummaryFile])
    IN  SortedInts([k \in 1..Len(lines) |-> SummaryLineId(lines[k])])

\* l.114: the header line for the columns course_nums
MatrixHeader(course_nums) ==
    MatrixHeaderStart
        \o Join([k \in 1..Len(course_nums) |-> CourseName(course_nums[k])], Comma)

\* mutant of MatrixRemaining: the whole file is kept, withdrawn block too
MatrixWholeFile(fs, course_num) ==
    AllStudentsInFile(fs[CourseFile(CourseName(course_num))])

\* l.120-124: remaining_students read from the file of course_num
MatrixRemaining(fs, course_num) ==
    ActiveSegment(fs[CourseFile(CourseName(course_num))])

\* l.125: '1' if student_id in remaining_students else '0'
Cell(remaining, student_id) ==
    IF student_id \in Range(remaining) THEN <<"1">> ELSE <<"0">>

\* l.117-126: one row; remainings[k] is what l.120-124 read for column k
MatrixRow(remainings, student_id) ==
    Join(<<Str(student_id)>>
            \o [k \in 1..Len(remainings) |-> Cell(remainings[k], student_id)],
         Comma)

\* l.113-126: the lines of the matrix file; every row reads every course
\* file, and the files do not change in between
MatrixContent(fs, ids, course_nums) ==
    LET remainings == [k \in 1..Len(course_nums) |-> MatrixRemaining(fs, course_nums[k])]
    IN  <<MatrixHeader(course_nums)>>
        \o [k \in 1..Len(ids) |-> MatrixRow(remainings, ids[k])]

\* l.120-123 fail on the first row: a course file is missing or malformed
CellReadFails(fs, ids, course_nums) ==
    /\ ids # <<>>
    /\ \E k \in 1..Len(course_nums) :
          LET f == CourseFile(CourseName(course_nums[k]))
          IN  f \notin DOMAIN fs \/ ~CourseFileReadable(fs[f])

\* mutant of MatrixDirMissing: the directory is created before the return
MatrixDirCreated ==
    /\ console' = MsgDirNotFound
    /\ dirExists' = TRUE
    /\ UNCHANGED files

\* l.91-93: the directory is missing
MatrixDirMissing ==
    /\ console' = MsgDirNotFound
    /\ UNCHANGED <<dirExists, files>>

\* l.95-127 on an existing directory
MatrixBuild ==
    /\ UNCHANGED dirExists
    /\ IF ListingFails(files)
       THEN console' = ExcIntValueError /\ UNCHANGED files
       ELSE IF SummaryFile \notin DOMAIN files
       THEN console' = ExcFileNotFound /\ UNCHANGED files
       ELSE IF files[SummaryFile] = <<>>
       THEN console' = ExcStopIteration /\ UNCHANGED files
       ELSE IF SummaryParseFails(files)
       THEN console' = ExcIntValueError /\ UNCHANGED files
       ELSE LET ids == MatrixStudentIds(files)
                nums == MatrixCourseNumbers(files)
            IN  IF CellReadFails(files, ids, nums)
                THEN /\ console' = ExcFileNotFound
                     /\ files' = WriteFile(files, MatrixFile, <<MatrixHeader(nums)>>)
                ELSE /\ console' = MsgMatrixSaved
                     /\ files' = WriteFile(files, MatrixFile,
                                           MatrixContent(files, ids, nums))

\* a call of generate_student_course_matrix_v4
BuildMatrix ==
    /\ pc = "idle"
    /\ IF ~dirExists THEN MatrixDirMissing ELSE MatrixBuild
    /\ UNCHANGED <<pc, args, student_ids, num_courses_taken, course_numbers,
                   course_enrollments, idx, course_name, withdrawal_rate,
                   num_withdrawals, withdrawn_students, remaining_students,
                   runs, scen>>

----------------------------------------------------------------------------
(* One generator run and any matrix builds, on a directory that starts absent *)

Generate == GenStart(1, StudentCounts, CourseCounts)

Next ==
    \/ Generate
    \/ DrawStudent
    \/ FinishStudents
    \/ DrawCourse
    \/ FinishCourses
    \/ AssignStudent
    \/ WithdrawCourse
    \/ WriteSummary
    \/ BuildMatrix

Spec == Init /\ [][Next]_vars

----------------------------------------------------------------------------
(* What the files say, read off their lines without the readers of the code *)

\* the count on line 1 of a course file
CountLine(content) == DigitsValue(content[1])

\* the ids on lines 2 .. (number of lines - count): the active block
ActiveBlock(content) ==
    LET count == CountLine(content)
    IN  [k \in 1..(Len(content) - 1 - count) |-> DigitsValue(content[k + 1])]

\* the ids on the last count lines: the withdrawn block
WithdrawnBlock(content) ==
    LET count == CountLine(content)
    IN  [k \in 1..count |-> DigitsValue(content[Len(content) - count + k])]

\* the summary line of a student: the line whose first field is the id
SummaryLineOf(student_id) ==
    LET text == Str(student_id) \o Comma
    IN  CHOOSE k \in 2..Len(files[SummaryFile]) : StartsWith(files[SummaryFile][k], text)

\* the course codes on the summary line of a student
SummaryCourses(student_id) ==
    Range(Tail(Split(files[SummaryFile][SummaryLineOf(student_id)]))) \ {<<>>}

\* the generator has run to its end and nothing ran since
GenCompleted == pc = "idle" /\ console = MsgGenerated

\* the courses whose file the running (or finished) generator has written
WrittenCourses ==
    IF course_name = <<>> THEN {}
    ELSE IF pc = "withdraw" THEN {course_numbers[k] : k \in 1..(idx - 1)}
    ELSE Range(course_numbers)

\* the matrix file, by fields
MatrixLines == files[MatrixFile]
\* the course codes of the header; with no course at all the header is
\* "StudentID," and its empty last field names no column
MatrixColumns ==
    LET NotEmpty(field) == field # <<>>
    IN  SelectSeq(Tail(Split(MatrixLines[1])), NotEmpty)
MatrixRowFields(r) == Split(MatrixLines[r + 1])
MatrixRowCount == Len(MatrixLines) - 1
ColumnNumber(name) == DigitsValue(SubSeq(name, Len(program_name) + 1, Len(name)))

----------------------------------------------------------------------------
(* Claims checked under Spec *)

\* C1: once the matrix builder has run after the generator, every cell
\* (student row, course column) of student_course_matrix.csv is "1" if the
\* student id is among the first (lines - count) ids of that course's file and
\* "0" otherwise; rows ascend by student id, columns by course number.
C1_MatrixConsistent ==
    console = MsgMatrixSaved =>
        LET columns == MatrixColumns
            rows == [r \in 1..MatrixRowCount |-> MatrixRowFields(r)]
            active == [c \in 1..Len(columns) |->
                          Range(ActiveBlock(files[CourseFile(columns[c])]))]
        IN  /\ \A r \in 1..Len(rows) :
                  /\ Len(rows[r]) = Len(columns) + 1
                  /\ \A c \in 1..Len(columns) :
                        rows[r][c + 1] =
                            IF DigitsValue(rows[r][1]) \in active[c]
                            THEN <<"1">> ELSE <<"0">>
            /\ IsAscending([r \in 1..Len(rows) |-> DigitsValue(rows[r][1])])
            /\ IsAscending([c \in 1..Len(columns) |-> ColumnNumber(columns[c])])

\* a matrix of two rows and two columns holding a 1 and a 0
C1_Witness ==
    /\ console = MsgMatrixSaved
    /\ MatrixRowCount = 2
    /\ Len(MatrixColumns) = 2
    /\ \E r \in 1..2, c \in 2..3 : MatrixRowFields(r)[c] = <<"1">>
    /\ \E r \in 1..2, c \in 2..3 : MatrixRowFields(r)[c] = <<"0">>

\* C2: when the generator has completed, a course code is on a student's
\* summary line exactly when the student id is in the active block of that
\* course's file, whatever the withdrawal count (0 and full enrollment too).
C2_SummaryRoundTrip ==
    GenCompleted =>
        LET onLine == [k \in 1..Len(student_ids) |-> SummaryCourses(student_ids[k])]
            active == [c \in 1..Len(course_numbers) |->
                          Range(ActiveBlock(files[CourseFile(CourseName(course_numbers[c]))]))]
        IN  \A k \in 1..Len(student_ids) : \A c \in 1..Len(course_numbers) :
                (CourseName(course_numbers[c]) \in onLine[k])
                <=> (student_ids[k] \in active[c])

\* a completed run with one course withdrawn in full and another with count 0
C2_Witness ==
    /\ GenCompleted
    /\ \E n, m \in Range(course_numbers) :
          LET a == files[CourseFile(CourseName(n))]
              b == files[CourseFile(CourseName(m))]
          IN  /\ CountLine(a) = 0 /\ Len(a) > 1
              /\ CountLine(b) = Len(b) - 1 /\ Len(b) > 1
    /\ \E k \in 1..Len(student_ids) : SummaryCourses(student_ids[k]) # {}
    /\ \E k \in 1..Len(student_ids) : SummaryCourses(student_ids[k]) = {}

\* C3: for the course the withdrawal loop has just handled, withdrawn and
\* remaining students are disjoint, together they are the enrolled students,
\* and the number withdrawn is floor(enrolled x rate) for the rate drawn.
C3_WithdrawalPartition ==
    course_name # <<>> =>
        LET enrolled == course_enrollments[course_name]
            den == args.withdrawal_rate_range[3]
            count == Cardinality(withdrawn_students)
        IN  /\ withdrawn_students \cap Range(remaining_students) = {}
            /\ withdrawn_students \cup Range(remaining_students) = Range(enrolled)
            /\ count * den <= Len(enrolled) * withdrawal_rate
            /\ Len(enrolled) * withdrawal_rate < (count + 1) * den
            /\ count = num_withdrawals
            /\ Len(remaining_students) + count = Len(enrolled)

\* a course split into a nonempty withdrawn and a nonempty remaining part
C3_Witness ==
    /\ course_name # <<>>
    /\ withdrawn_students # {}
    /\ remaining_students # <<>>

\* C4: every course file written has the layout count line, active ids
\* ascending, withdrawn ids ascending: the count is the number withdrawn, the
\* lines before the last count lines are the remaining students and the last
\* count lines the withdrawn ones; the slice the readers take gives the
\* remaining students.
C4_FileLayout ==
    /\ \A n \in WrittenCourses :
          LET content == files[CourseFile(CourseName(n))]
              enrolled == course_enrollments[CourseName(n)]
              active == ActiveBlock(content)
              withdrawn == WithdrawnBlock(content)
          IN  /\ \A k \in 1..Len(content) : ParseInt(content[k]) # ValueError
              /\ Len(content) = Len(enrolled) + 1
              /\ CountLine(content) <= Len(enrolled)
              /\ IsAscending(active)
              /\ IsAscending(withdrawn)
              /\ Range(active) \cup Range(withdrawn) = Range(enrolled)
    /\ course_name # <<>> =>
          LET content == files[CourseFile(course_name)]
          IN  /\ content[1] = Str(Cardinality(withdrawn_students))
              /\ Range(ActiveBlock(content)) = Range(remaining_students)
              /\ Range(WithdrawnBlock(content)) = withdrawn_students
              /\ ActiveSegment(content) = SortedInts(remaining_students)

\* a file whose active block had to be sorted, and one with a withdrawn student
C4_Witness ==
    /\ course_name # <<>>
    /\ pc = "summary"
    /\ Len(remaining_students) = 2
    /\ remaining_students[1] > remaining_students[2]
    /\ \E n \in Range(course_numbers) :
          CountLine(files[CourseFile(CourseName(n))]) > 0

\* C5: a matrix build on a missing output directory reports it and leaves the
\* file system as it was: no directory, no file.
C5_MissingDirUntouched ==
    [][(BuildMatrix /\ ~dirExists) =>
          (dirExists' = dirExists /\ files' = files /\ console' = MsgDirNotFound)]_vars

\* the builder has reported the missing directory
C5_Witness == console = MsgDirNotFound /\ ~dirExists /\ files = <<>>

\* C8: past the student loop the id list has num_students distinct entries
\* of the id range; past the course loop and its sort the course list has
\* num_courses distinct entries of the course range in ascending order, and
\* the course codes ascend as strings too.
C8_UniqueIdentifiers ==
    /\ pc # "students" =>
          /\ Len(student_ids) = args.num_students
          /\ IsDistinct(student_ids)
          /\ \A k \in 1..Len(student_ids) :
                MinStudentId <= student_ids[k] /\ student_ids[k] <= MaxStudentId
    /\ pc \notin {"students", "courses"} =>
          /\ Len(course_numbers) = args.num_courses
          /\ IsDistinct(course_numbers)
          /\ \A k \in 1..Len(course_numbers) :
                MinCourseNum <= course_numbers[k] /\ course_numbers[k] <= MaxCourseNum
          /\ IsAscending(course_numbers)
          /\ \A k \in 1..(Len(course_numbers) - 1) :
                StrLess(CourseName(course_numbers[k]), CourseName(course_numbers[k + 1]))

\* both loops done with as many students and courses as the ranges hold
C8_Witness ==
    /\ pc = "assign"
    /\ Len(student_ids) = StudentSpace
    /\ Len(course_numbers) = CourseSpace

----------------------------------------------------------------------------
(* Repeated generator runs into the same directory *)

RerunStudentCounts == {1}
RerunCourseCounts == {1}

Regenerate == GenStart(MaxRuns, RerunStudentCounts, RerunCourseCounts)

NextRerun ==
    \/ Regenerate
    \/ DrawStudent
    \/ FinishStudents
    \/ DrawCourse
    \/ FinishCourses
    \/ AssignStudent
    \/ WithdrawCourse
    \/ WriteSummary
    \/ BuildMatrix

SpecRerun == Init /\ [][NextRerun]_vars

\* the latest generator run has completed (it wrote its course files and
\* its summary), whatever the builder printed since
LastRunCompleted ==
    /\ pc = "idle"
    /\ runs > 0
    /\ IF args.num_courses > 0 THEN course_name # <<>> ELSE args.num_students = 0

\* C6: after one or more generator runs into the same directory and a matrix
\* build, the summary has num_students lines after its header and the matrix
\* has num_students rows and num_courses columns, those of the latest run,
\* each cell "0" or "1".
C6_ShapeOfLatestRun ==
    (console = MsgMatrixSaved /\ LastRunCompleted) =>
        /\ Len(files[SummaryFile]) = args.num_students + 1
        /\ MatrixRowCount = args.num_students
        /\ {DigitsValue(MatrixRowFields(r)[1]) : r \in 1..MatrixRowCount}
              = Range(student_ids)
        /\ Len(MatrixColumns) = args.num_courses
        /\ Range(MatrixColumns) = {CourseName(n) : n \in Range(course_numbers)}
        /\ \A r \in 1..MatrixRowCount : \A c \in 2..Len(MatrixRowFields(r)) :
              MatrixRowFields(r)[c] \in {<<"0">>, <<"1">>}

----------------------------------------------------------------------------
(* Other entries in the output directory *)

\* "INFO_old.txt", "notes.txt", "INFO1000.csv"
ForeignNames ==
    {<<"I", "N", "F", "O", "_", "o", "l", "d", ".", "t", "x", "t">>,
     <<"n", "o", "t", "e", "s", ".", "t", "x", "t">>,
     <<"I", "N", "F", "O", "1", "0", "0", "0", ".", "c", "s", "v">>}

\* someone else puts a file into the output directory
PlaceForeign ==
    /\ pc = "idle"
    /\ dirExists
    /\ \E name \in ForeignNames :
          /\ name \notin DOMAIN files
          /\ files' = WriteFile(files, name, <<>>)
    /\ UNCHANGED <<pc, args, student_ids, num_courses_taken, course_numbers,
                   course_enrollments, idx, course_name, withdrawal_rate,
                   num_withdrawals, withdrawn_students, remaining_students,
                   dirExists, console, runs, scen>>

NextForeign ==
    \/ Generate
    \/ DrawStudent
    \/ FinishStudents
    \/ DrawCourse
    \/ FinishCourses
    \/ AssignStudent
    \/ WithdrawCourse
    \/ WriteSummary
    \/ BuildMatrix
    \/ PlaceForeign

SpecForeign == Init /\ [][NextForeign]_vars

\* the entries named program_name, digits, ".txt"
DigitEntries ==
    {f \in DOMAIN files :
        /\ IsCourseEntry(f)
        /\ EntrySuffix(f) # <<>>
        /\ \A k \in 1..Len(EntrySuffix(f)) : IsDigit(EntrySuffix(f)[k])}

\* C10: the builder takes as columns exactly the entries named program_name,
\* digits, ".txt"; any other entry adds no column and does not make the
\* build fail.
C10_OtherEntriesIgnored ==
    /\ console # ExcIntValueError
    /\ console = MsgMatrixSaved =>
          {CourseFile(MatrixColumns[c]) : c \in 1..Len(MatrixColumns)} = DigitEntries

----------------------------------------------------------------------------
(* The identifier loops, with requests that may exceed the ranges drawn from *)

GenerateAny == GenStart(1, 0..(StudentSpace + 1), 0..(CourseSpace + 1))

NextLoops ==
    \/ GenerateAny
    \/ DrawStudent
    \/ FinishStudents
    \/ DrawCourse
    \/ FinishCourses
    \/ AssignStudent
    \/ WithdrawCourse
    \/ WriteSummary

\* the run goes on, and every value of a range is drawn again and again:
\* a draw that would add a value not yet in the list is eventually made
FairDraws ==
    /\ \A new_id \in StudentIdDraws : WF_vars(DrawStudentId(new_id))
    /\ \A new_course_num \in CourseNumDraws : WF_vars(DrawCourseNum(new_course_num))
    /\ WF_vars(FinishStudents)
    /\ WF_vars(FinishCourses)

SpecLoops == Init /\ [][NextLoops]_vars /\ FairDraws

\* C9: a loop whose request fits the range it draws from ends; a loop whose
\* request exceeds it never ends, and then no file is ever written.
C9_LoopsEndIffRequestFits ==
    /\ [](pc = "students" /\ args.num_students <= StudentSpace
            => <>(pc # "students"))
    /\ [](pc = "courses" /\ args.num_courses <= CourseSpace
            => <>(pc # "courses"))
    /\ [][(pc = "students" /\ args.num_students > StudentSpace => pc' = "students")
          /\ (pc = "courses" /\ args.num_courses > CourseSpace => pc' = "courses")]_vars
    /\ [](args.num_students > StudentSpace \/ args.num_courses > CourseSpace
            => files = <<>>)

\* the course loop holding every value of its range and still short
C9_Witness ==
    /\ pc = "courses"
    /\ args.num_courses > CourseSpace
    /\ Len(course_numbers) = CourseSpace
    /\ Len(student_ids) = StudentSpace

----------------------------------------------------------------------------
(* The example invocation of l.132, seen from one of its courses:           *)
(* num_courses=5, num_students=150, courses_per_student_range=(1, 5),       *)
(* withdrawal_rate_range=(0.05, 0.15)                                       *)

ScenarioCourses == 5
ScenarioStudents == 150
ScenarioCps == <<1, 5>>
\* 0.05 .. 0.15 in hundredths
ScenarioRates == <<5, 15, 100>>

InitScenario ==
    /\ pc = "idle"
    /\ args = NoArgs
    /\ student_ids = <<>>
    /\ num_courses_taken = <<>>
    /\ course_numbers = <<>>
    /\ course_enrollments = <<>>
    /\ idx = 0
    /\ course_name = <<>>
    /\ withdrawal_rate = 0
    /\ num_withdrawals = 0
    /\ withdrawn_students = {}
    /\ remaining_students = <<>>
    /\ dirExists = FALSE
    /\ files = <<>>
    /\ console = MsgNone
    /\ runs = 0
    /\ \E course_index \in 0..(ScenarioCourses - 1) :
          scen = [stage |-> "assign", course_index |-> course_index,
                  student |-> 0, enrolled |-> 0, rate |-> 0, count |-> 0]

\* one iteration of the for loop of l.45-50: the length of the enrollment
\* list of the course grows by one when the sample holds its index
ScenAssign ==
    /\ scen.stage = "assign"
    /\ scen.student < ScenarioStudents
    /\ \E num_courses_for_student \in ScenarioCps[1]..ScenarioCps[2] :
          \E selected \in SampleIndices(ScenarioCourses, num_courses_for_student) :
             scen' = [scen EXCEPT
                        !.student = @ + 1,
                        !.enrolled = IF scen.course_index \in selected
                                     THEN @ + 1 ELSE @]
    /\ UNCHANGED <<pc, args, student_ids, num_courses_taken, course_numbers,
                   course_enrollments, idx, course_name, withdrawal_rate,
                   num_withdrawals, withdrawn_students, remaining_students,
                   dirExists, files, console, runs>>

\* l.55-56 and l.61 for the course: the rate drawn and the count written
ScenWithdraw ==
    /\ scen.stage = "assign"
    /\ scen.student = ScenarioStudents
    /\ \E rate \in RateDraws(ScenarioRates) :
          scen' = [scen EXCEPT
                     !.stage = "written",
                     !.rate = rate,
                     !.count = NumWithdrawals(scen.enrolled, rate, ScenarioRates[3])]
    /\ UNCHANGED <<pc, args, student_ids, num_courses_taken, course_numbers,
                   course_enrollments, idx, course_name, withdrawal_rate,
                   num_withdrawals, withdrawn_students, remaining_students,
                   dirExists, files, console, runs>>

NextScenario ==
    \/ ScenAssign
    \/ ScenWithdraw

SpecScenario == InitScenario /\ [][NextScenario]_vars

\* floor(n x enrolled / den)
FloorOf(enrolled, n, den) ==
    CHOOSE q \in 0..enrolled : q * den <= enrolled * n /\ enrolled * n < (q + 1) * den

\* C7 as stated: every course file of the scenario has a nonzero withdrawal
\* count between floor(0.05 x enrolled) and floor(0.15 x enrolled).
C7_CountNonzeroInBand ==
    scen.stage = "written" =>
        /\ scen.count > 0
        /\ FloorOf(scen.enrolled, ScenarioRates[1], ScenarioRates[3]) <= scen.count
        /\ scen.count <= FloorOf(scen.enrolled, ScenarioRates[2], ScenarioRates[3])

\* C7 amended: every course file of the scenario has a withdrawal count
\* between floor(0.05 x enrolled) and floor(0.15 x enrolled); the count is
\* nonzero when at least 20 students are enrolled in the course and is 0 when
\* fewer than 7 are.
C7_CountInBand ==
    scen.stage = "written" =>
        /\ FloorOf(scen.enrolled, ScenarioRates[1], ScenarioRates[3]) <= scen.count
        /\ scen.count <= FloorOf(scen.enrolled, ScenarioRates[2], ScenarioRates[3])
        /\ scen.enrolled * ScenarioRates[1] >= ScenarioRates[3] => scen.count > 0
        /\ scen.enrolled * ScenarioRates[2] < ScenarioRates[3] => scen.count = 0

\* a course of 100 students with the count at the upper end of the band
C7_Witness ==
    /\ scen.stage = "written"
    /\ scen.enrolled = 100
    /\ scen.count = 15

====
